---- MODULE Spec2Model ----
(***************************************************************************)
(* A model of the container launcher: run_in_container (the launcher       *)
(* parent), the cloned child up to fork/exec, the PID-1 init supervisor,   *)
(* the cgroup manager and the network plumber.                             *)
(*                                                                         *)
(* Every fallible call the code propagates with `?` (or handles with       *)
(* `if let Err`) has a failing outcome in the model.  An `ip` command has  *)
(* three outcomes: it exits 0, it exits non-zero, or it cannot be spawned. *)
(***************************************************************************)
EXTENDS Integers, Sequences, FiniteSets, TLC

\* ------------------------------------------------------------------ bounds
\* number of processes other than the workload that are re-parented to init
MaxOrphans == 2
\* number of SIGTERM/SIGINT/SIGQUIT deliveries to the init supervisor
MaxSignals == 2

\* ------------------------------------------------------------- constants
SIGINT == 2
SIGQUIT == 3
SIGTERM == 15
SIGCHLD == 17
\* cgroups.rs: const PERIOD: f64 = 100000.0
PERIOD == 100000

None == <<"None">>
Some(v) == <<"Some", v>>
IsSome(o) == o[1] = "Some"
Unwrap(o) == o[2]

\* ------------------------------------------------------- pure functions
Digits == {"0", "1", "2", "3", "4", "5", "6", "7", "8", "9"}

DigitVal(c) ==
    CASE c = "0" -> 0 [] c = "1" -> 1 [] c = "2" -> 2 [] c = "3" -> 3
      [] c = "4" -> 4 [] c = "5" -> 5 [] c = "6" -> 6 [] c = "7" -> 7
      [] c = "8" -> 8 [] c = "9" -> 9

\* ASCII case folding of the letters the inputs use, as (?i) and
\* eq_ignore_ascii_case fold them
Lower(c) ==
    CASE c = "A" -> "a" [] c = "B" -> "b" [] c = "E" -> "e" [] c = "F" -> "f"
      [] c = "G" -> "g" [] c = "I" -> "i" [] c = "K" -> "k" [] c = "M" -> "m"
      [] c = "N" -> "n" [] c = "T" -> "t" [] c = "X" -> "x" [] c = "Y" -> "y"
      [] c = "D" -> "d" [] c = "L" -> "l" [] c = "V" -> "v"
      [] OTHER -> c

LowerSeq(s) == [i \in 1..Len(s) |-> Lower(s[i])]

AllDigits(s) == \A i \in 1..Len(s) : s[i] \in Digits

\* the alternation (?:k|m|g|ki|mi|gi) of the regex
UnitSuffixes ==
    {<<"k">>, <<"m">>, <<"g">>, <<"k", "i">>, <<"m", "i">>, <<"g", "i">>}

\* validate_memory_limit: is_match of ^(?i:(max|\d+|\d+)(?:k|m|g|ki|mi|gi))$
\* The group (max|\d+|\d+) is followed by a mandatory unit.
validate_memory_limit(limit) ==
    \E n \in 1..Len(limit) :
       /\ n < Len(limit)
       /\ \/ LowerSeq(SubSeq(limit, 1, n)) = <<"m", "a", "x">>
          \/ AllDigits(SubSeq(limit, 1, n))
       /\ LowerSeq(SubSeq(limit, n + 1, Len(limit))) \in UnitSuffixes

RECURSIVE DecVal(_)
DecVal(s) == IF s = <<>> THEN 0
             ELSE 10 * DecVal(SubSeq(s, 1, Len(s) - 1)) + DigitVal(s[Len(s)])

RECURSIVE Pow10(_)
Pow10(n) == IF n = 0 THEN 1 ELSE 10 * Pow10(n - 1)

StripSign(s) == IF s # <<>> /\ s[1] \in {"+", "-"} THEN SubSeq(s, 2, Len(s)) ELSE s
IsNeg(s) == s # <<>> /\ s[1] = "-"

DotPos(s) == IF \E i \in 1..Len(s) : s[i] = "."
             THEN CHOOSE i \in 1..Len(s) : s[i] = "." /\ \A j \in 1..(i - 1) : s[j] # "."
             ELSE 0

\* the position of the exponent marker, 0 when there is none
ExpPos(s) == IF \E i \in 1..Len(s) : Lower(s[i]) = "e"
             THEN CHOOSE i \in 1..Len(s) :
                    Lower(s[i]) = "e" /\ \A j \in 1..(i - 1) : Lower(s[j]) # "e"
             ELSE 0

\* the value of a number with integer digits ip, fraction digits fp and
\* exponent text expS, as the fraction num / den
ParseParts(ip, fp, expS, neg) ==
    IF /\ AllDigits(ip) /\ AllDigits(fp) /\ Len(ip) + Len(fp) > 0
       /\ expS = <<>> \/ (Len(StripSign(expS)) > 0 /\ AllDigits(StripSign(expS)))
      THEN [kind |-> "num", neg |-> neg,
            num |-> DecVal(ip \o fp)
                      * (IF IsNeg(expS) THEN 1 ELSE Pow10(DecVal(StripSign(expS)))),
            den |-> Pow10(Len(fp))
                      * (IF IsNeg(expS) THEN Pow10(DecVal(StripSign(expS))) ELSE 1)]
      ELSE [kind |-> "err"]

\* a mantissa is split at its first dot
ParseMantissa(mant, p, expS, neg) ==
    ParseParts(IF p = 0 THEN mant ELSE SubSeq(mant, 1, p - 1),
               IF p = 0 THEN <<>> ELSE SubSeq(mant, p + 1, Len(mant)),
               expS, neg)

\* the text after the sign is split at its exponent marker; a marker must be
\* followed by an exponent
ParseNumber(body, ep, neg) ==
    IF ep = Len(body) /\ ep > 0 THEN [kind |-> "err"]
    ELSE IF ep = 0 THEN ParseMantissa(body, DotPos(body), <<>>, neg)
    ELSE ParseMantissa(SubSeq(body, 1, ep - 1), DotPos(SubSeq(body, 1, ep - 1)),
                       SubSeq(body, ep + 1, Len(body)), neg)

ParseUnsigned(body, low, neg) ==
    IF low = <<"i", "n", "f">> \/ low = <<"i", "n", "f", "i", "n", "i", "t", "y">>
      THEN [kind |-> "inf", neg |-> neg]
    ELSE IF low = <<"n", "a", "n">>
      THEN [kind |-> "nan", neg |-> neg]
    ELSE ParseNumber(body, ExpPos(body), neg)

\* str::parse::<f64>: an optional sign, then inf / infinity / nan in any case,
\* or digits with an optional fraction (at least one digit overall) and an
\* optional exponent (e or E, an optional sign, at least one digit).
\* [kind |-> "err"] | [kind |-> "inf" | "nan", neg] | [kind |-> "num", neg, num, den]
ParseF64(s) == ParseUnsigned(StripSign(s), LowerSeq(StripSign(s)), IsNeg(s))

\* parse_cpu_quota: Err for an unparsable string and for a value <= 0.0 (a
\* comparison NaN never satisfies); otherwise "<quota> <PERIOD>" with
\* quota = (f * PERIOD) as i64, a saturating cast that maps NaN to 0 and
\* +infinity to i64::MAX.  <<"Ok", sat, quota, PERIOD>>: sat = "max" stands
\* for quota = i64::MAX, which is beyond the checker's integers.  The product
\* is computed exactly; the inputs are values for which the f64 product is
\* exact as well (dyadic fractions).
parse_cpu_quota(cpu) ==
    LET f == ParseF64(cpu)
    IN  IF f.kind = "err" THEN <<"Err">>
        ELSE IF f.kind = "nan" THEN <<"Ok", "no", 0, PERIOD>>
        ELSE IF f.kind = "inf"
          THEN IF f.neg THEN <<"Err">> ELSE <<"Ok", "max", 0, PERIOD>>
        ELSE IF f.neg \/ f.num = 0 THEN <<"Err">>
        ELSE <<"Ok", "no", (f.num * PERIOD) \div f.den, PERIOD>>

\* wait_for_child's match on the WaitStatus waitpid returned
\* ws = <<"exited", code>> | <<"signaled", sig>> | <<"other">>
wait_for_child(ws) ==
    CASE ws[1] = "exited"   -> <<"Ok", ws[2]>>
      [] ws[1] = "signaled" -> <<"Ok", 128 + ws[2]>>
      [] OTHER              -> <<"Ok", 1>>

\* ------------------------------------------------------------ the inputs
\* strings are sequences of characters
MemInputs == {None, Some(<<"1", "0", "0", "M">>), Some(<<"m", "a", "x">>),
              Some(<<"a", "b", "c">>)}
CpuInputs == {None, Some(<<"0", ".", "5">>), Some(<<"a", "b", "c">>)}
\* the limit strings the validators are checked on
MemStrings ==
    {None, Some(<<>>),
     Some(<<"m", "a", "x">>), Some(<<"M", "A", "X">>), Some(<<"m", "a", "x", "K">>),
     Some(<<"1", "0", "2", "4">>), Some(<<"0">>), Some(<<"0", "M">>),
     Some(<<"1", "K">>), Some(<<"1", "0", "M">>), Some(<<"2", "G">>),
     Some(<<"1", "K", "i">>), Some(<<"1", "0", "M", "i">>), Some(<<"2", "G", "i">>),
     Some(<<"5", "m">>), Some(<<"3", "g", "i">>),
     Some(<<"K">>), Some(<<"K", "1", "0", "0">>), Some(<<"1", "0", "0", "K", "B">>),
     Some(<<"1", "T", "B">>), Some(<<"1", "T", "i", "B">>),
     Some(<<"1", ".", "5", "G">>), Some(<<"a", "b", "c">>)}
CpuStrings ==
    {None, Some(<<"0", ".", "5">>), Some(<<"0", ".", "2", "5">>),
     Some(<<"1", ".", "0">>), Some(<<"2", ".", "0">>), Some(<<"5", "e", "-", "1">>),
     Some(<<"i", "n", "v", "a", "l", "i", "d">>), Some(<<"0">>),
     Some(<<"-", "0", ".", "5">>), Some(<<"i", "n", "f">>),
     Some(<<"-", "i", "n", "f">>), Some(<<"i", "n", "f", "i", "n", "i", "t", "y">>),
     Some(<<"N", "a", "N">>)}
HostnameInputs == {None, Some("box")}
\* effective (uid, gid) of the launcher: root, or an unprivileged user
Identities == {<<0, 0>>, <<1000, 1001>>}
\* exit codes a workload ends with; 1 is also the code of a failed execve
ExitCodes == {0, 1, 3}

\* Ipv4Cidr::new(Ipv4Addr::new(192, 168, 200, 0), 24): the container network
container_net_cidr == [addr |-> <<192, 168, 200, 0>>, len |-> 24]

RECURSIVE Pow2(_)
Pow2(n) == IF n = 0 THEN 1 ELSE 2 * Pow2(n - 1)

\* the address n places after a, octet by octet with carry
AddrAdd(a, n) ==
    LET v4 == a[4] + n
        v3 == a[3] + (v4 \div 256)
        v2 == a[2] + (v3 \div 256)
        v1 == a[1] + (v2 \div 256)
    IN  <<v1 % 256, v2 % 256, v3 % 256, v4 % 256>>

\* Ipv4Cidr::iter().nth(n): the iterator yields every address of the network,
\* the network address first; nth counts from 0 and is None past the last one
Nth(netw, n) ==
    IF netw.len <= 30 \/ n < Pow2(32 - netw.len)
      THEN Some(AddrAdd(netw.addr, n)) ELSE None

\* mutant of ips_from_cidr: the addresses are taken one place further on
ips_from_cidr_OneFurther(netw) ==
    IF ~IsSome(Nth(netw, 2)) \/ ~IsSome(Nth(netw, 3)) THEN <<"Err">>
    ELSE <<"Ok", Unwrap(Nth(netw, 2)), Unwrap(Nth(netw, 3))>>

\* ips_from_cidr: (host_ip, container_ip) = (iter().nth(1), iter().nth(2)),
\* Err when the network has no such address
ips_from_cidr(netw) ==
    IF ~IsSome(Nth(netw, 1)) \/ ~IsSome(Nth(netw, 2)) THEN <<"Err">>
    ELSE <<"Ok", Unwrap(Nth(netw, 1)), Unwrap(Nth(netw, 2))>>

\* format!("{}/24", ipaddr): the address argument of `ip addr add`
WithSuffix24(ipaddr) == <<ipaddr, 24>>

\* the characters of the names below, in ASCII order
Ascii ==
    <<"/", "0", "1", "2", "3", "4", "5", "6", "7", "8", "9", ":",
      "A", "B", "C", "D", "E", "F", "G", "H", "I", "J", "K", "L", "M",
      "N", "O", "P", "Q", "R", "S", "T", "U", "V", "W", "X", "Y", "Z",
      "a", "b", "c", "d", "e", "f", "g", "h", "i", "j", "k", "l", "m",
      "n", "o", "p", "q", "r", "s", "t", "u", "v", "w", "x", "y", "z">>
Ord(c) == CHOOSE i \in DOMAIN Ascii : Ascii[i] = c

\* the order of String: byte by byte, a proper prefix first
LexLess(a, b) ==
    \E i \in 1..(Len(a) + 1) :
       /\ \A j \in 1..(i - 1) : j <= Len(b) /\ a[j] = b[j]
       /\ \/ i = Len(a) + 1 /\ Len(b) >= i
          \/ i <= Len(a) /\ i <= Len(b) /\ Ord(a[i]) < Ord(b[i])

\* Vec::sort of the (distinct) strings of S
RECURSIVE SortSet(_)
SortSet(S) ==
    IF S = {} THEN <<>>
    ELSE LET m == CHOOSE x \in S : \A y \in S \ {x} : LexLess(x, y)
         IN  <<m>> \o SortSet(S \ {m})

\* [String]::join(":")
RECURSIVE Join(_)
Join(names) ==
    IF names = <<>> THEN <<>>
    ELSE IF Len(names) = 1 THEN names[1]
    ELSE names[1] \o <<":">> \o Join(Tail(names))

\* the root directory run_in_container passes, "fs"
FsRoot == <<"f", "s">>

\* mutant of is_match: the length of the name is not compared with 7
is_match_AnyLength(name) ==
    /\ Len(name) >= 5 /\ SubSeq(name, 1, 5) = <<"l", "a", "y", "e", "r">>
    /\ \A i \in 6..7 : i <= Len(name) => name[i] \in Digits

\* find_lower_layers: name.len() == 7 && name.starts_with("layer")
\*   && name.chars().skip(5).take(2).all(|c| c.is_ascii_digit())
is_match(name) ==
    /\ Len(name) = 7
    /\ Len(name) >= 5 /\ SubSeq(name, 1, 5) = <<"l", "a", "y", "e", "r">>
    /\ \A i \in 6..7 : i <= Len(name) => name[i] \in Digits

\* find_lower_layers: the directories of root whose name matches, as
\* "<root>/<name>", sorted and joined with ":".  An entry is <<name, is_dir>>.
find_lower_layers(entries) ==
    Join(SortSet({FsRoot \o <<"/">> \o e[1] : e \in {x \in entries : x[2] /\ is_match(x[1])}}))

\* get_overlay_dirs: the lower component of its result
get_overlay_dirs(entries) ==
    LET lower_dirs == find_lower_layers(entries)
    IN  IF lower_dirs = <<>> THEN FsRoot \o <<"/", "r", "o", "o", "t", "f", "s">>
        ELSE FsRoot \o <<"/", "r", "o", "o", "t", "f", "s">> \o <<":">> \o lower_dirs

\* the scratch directories upper, workdir and mount
ScratchNames == {<<"u", "p", "p", "e", "r">>, <<"w", "o", "r", "k", "d", "i", "r">>, <<"m", "o", "u", "n", "t">>}

\* create_overlay_dirs: recreate_dir of upper, workdir and mount; each is
\* removed when it exists and created as an empty directory
create_overlay_dirs(entries) ==
    {e \in entries : e[1] \notin ScratchNames} \cup {<<n, TRUE>> : n \in ScratchNames}

\* create_overlay_dirs left with `?`: the directories removed or created before
\* the failing call stay that way
create_overlay_dirs_failed(entries) ==
    {entries, {e \in entries : e[1] \notin ScratchNames}}

\* the directory fs of the launches of Spec: rootfs and one layer
DefaultEntries == {<<<<"r", "o", "o", "t", "f", "s">>, TRUE>>, <<<<"l", "a", "y", "e", "r", "0", "0">>, TRUE>>}

\* the entries the layer discovery is checked on: any subset of these
EntryUniverse ==
    {<<<<"r", "o", "o", "t", "f", "s">>, TRUE>>, <<<<"l", "a", "y", "e", "r", "0", "0">>, TRUE>>, <<<<"l", "a", "y", "e", "r", "0", "2">>, TRUE>>,
     <<<<"l", "a", "y", "e", "r", "1", "0">>, TRUE>>, <<<<"l", "a", "y", "e", "r", "A", "A">>, TRUE>>, <<<<"l", "a", "y", "e", "r", "1">>, TRUE>>,
     <<<<"l", "a", "y", "e", "r", "0", "0", "0">>, TRUE>>, <<<<"l", "a", "y", "e", "r", "0", "5">>, FALSE>>}

\* caps::all(), represented by three of its members
Capabilities == {"CAP_CHOWN", "CAP_NET_ADMIN", "CAP_SYS_ADMIN"}

\* mutant of caps_drop: CAP_NET_ADMIN is taken out of the drop set as well
caps_drop_KeepsNetAdmin == Capabilities \ {"CAP_CHOWN", "CAP_NET_ADMIN"}

\* drop_caps: let mut caps_drop = caps::all(); caps_drop.remove(&CAP_CHOWN)
caps_drop == Capabilities \ {"CAP_CHOWN"}

VARIABLES
    \* launch inputs
    euid, egid, cpu, mem, hostname, drop_caps,
    \* the launcher (parent): position, snapshots, its pipe ends, the Cgroup
    \* value it owns, run_in_container's result, the process exit code
    ppc, uid, gid, pRead, pWrite, cgOwned, ipIdx, waitResult, result, exitCode,
    \* the sync pipe: bytes in flight
    pipeBytes,
    \* the cloned child: position, its pipe ends, process state, exit status,
    \* the byte count its read returned
    cpc, cRead, cWrite, childState, childStatus, readCount,
    \* host state: /proc/<pid>/{uid_map,setgroups,gid_map}, links, cgroup fs
    procFiles, net, cg,
    \* inside the container: workload, re-parented processes, init's signals
    workload, wlStatus, wlPending, orphans, sigPending, curSig, sigCount,
    \* the child's capability bounding set and its no-new-privileges bit
    bounding, no_new_privs,
    \* the entries of the directory fs, and the lowerdir option of the overlay
    \* mount
    fsEntries, lowerdir,
    \* history: the operations performed so far, in order
    trace

inputVars == <<euid, egid, cpu, mem, hostname, drop_caps>>
parentVars == <<ppc, uid, gid, pRead, pWrite, cgOwned, ipIdx, waitResult, result, exitCode>>
childVars == <<cpc, cRead, cWrite, childState, childStatus, readCount>>
hostVars == <<procFiles, net, cg>>
supVars == <<workload, wlStatus, wlPending, orphans, sigPending, curSig, sigCount>>
fsVars == <<fsEntries, lowerdir>>
capVars == <<bounding, no_new_privs>>
vars == <<inputVars, fsVars, capVars, parentVars, pipeBytes, childVars, hostVars, supVars, trace>>

Orphans == 1..MaxOrphans

Init ==
    /\ \E id \in Identities : euid = id[1] /\ egid = id[2]
    /\ cpu \in CpuInputs
    /\ mem \in MemInputs
    /\ hostname \in HostnameInputs
    /\ drop_caps \in BOOLEAN
    /\ ppc = "start" /\ uid = -1 /\ gid = -1
    /\ pRead = "none" /\ pWrite = "none"
    /\ cgOwned = FALSE /\ ipIdx = 1
    /\ waitResult = None /\ result = "none" /\ exitCode = -1
    /\ pipeBytes = 0
    /\ cpc = "none" /\ cRead = "none" /\ cWrite = "none"
    /\ childState = "none" /\ childStatus = <<"none">> /\ readCount = -1
    /\ procFiles = [f \in {"uid_map", "setgroups", "gid_map"} |-> None]
    /\ net = [br0 |-> FALSE, veth |-> FALSE, moved |-> FALSE,
              brAddr |-> None, cAddr |-> None, gw |-> None]
    /\ cg = [parent |-> FALSE, leaf |-> FALSE, attached |-> FALSE,
             memMax |-> None, cpuMax |-> None, rootCtl |-> {}, baseCtl |-> {}]
    /\ workload = "none" /\ wlStatus = <<"none">> /\ wlPending = {}
    /\ orphans = [o \in Orphans |-> "none"]
    /\ sigPending = {} /\ curSig = 0 /\ sigCount = 0
    /\ fsEntries = DefaultEntries /\ lowerdir = None
    /\ bounding = Capabilities /\ no_new_privs = FALSE
    /\ trace = <<>>

\* ---------------------------------------------------------------- helpers
Closed(fd) == IF fd = "open" THEN "closed" ELSE fd

\* impl Drop for Cgroup: remove_dir(leaf), then remove_dir(path), both results
\* ignored.  rmdir of a cgroup fails while it has live member processes, and
\* rmdir of toy_container fails while it still contains the leaf.
Drop(c, alive) ==
    LET leafStays   == c.leaf /\ c.attached /\ alive
        parentStays == c.parent /\ leafStays
    IN  [c EXCEPT !.leaf = leafStays,
                  !.parent = parentStays,
                  !.attached = IF leafStays THEN c.attached ELSE FALSE,
                  !.memMax = IF leafStays THEN c.memMax ELSE None,
                  !.cpuMax = IF leafStays THEN c.cpuMax ELSE None,
                  !.baseCtl = IF parentStays THEN c.baseCtl ELSE {}]

DropEvents == <<"rmdir_leaf", "rmdir_parent">>

\* outcomes of running /sbin/ip
IpOutcomes == {"ok", "nonzero", "spawnfail"}

\* ip(): Err only when the command cannot be spawned; the ExitStatus that
\* Command::status returns is not inspected
ip(outcome) == IF outcome = "spawnfail" THEN "Err" ELSE "Ok"

\* the commands of create_bridge and create_veth_pair, in call order
HostCmds == <<"link_add_br0", "addr_add_br0", "link_up_br0",
              "link_add_veth", "link_up_veth0h0", "link_master_br0">>

\* the host state in which an ip command can exit 0
IpCanSucceed(cmd, n) ==
    CASE cmd = "link_add_br0"     -> ~n.br0
      [] cmd = "addr_add_br0"     -> n.br0
      [] cmd = "link_up_br0"      -> n.br0
      [] cmd = "link_add_veth"    -> ~n.veth
      [] cmd = "link_up_veth0h0"  -> n.veth
      [] cmd = "link_master_br0"  -> n.veth /\ n.br0
      [] cmd = "netns_veth0c0"    -> n.veth /\ ~n.moved
      [] cmd = "link_delete_br0"  -> n.br0
      [] OTHER                    -> TRUE

\* the host state after an ip command, by its outcome
IpEffect(cmd, outcome, n) ==
    IF outcome # "ok" THEN n
    ELSE CASE cmd = "link_add_br0"    -> [n EXCEPT !.br0 = TRUE]
           [] cmd = "addr_add_br0"    ->
                [n EXCEPT !.brAddr = Some(WithSuffix24(ips_from_cidr(container_net_cidr)[2]))]
           [] cmd = "c_addr_add_veth0c0" ->
                [n EXCEPT !.cAddr = Some(WithSuffix24(ips_from_cidr(container_net_cidr)[3]))]
           [] cmd = "c_route_add_default" ->
                [n EXCEPT !.gw = Some(ips_from_cidr(container_net_cidr)[2])]
           [] cmd = "link_add_veth"   -> [n EXCEPT !.veth = TRUE]
           [] cmd = "netns_veth0c0"   -> [n EXCEPT !.moved = TRUE]
           [] cmd = "link_delete_br0" -> [n EXCEPT !.br0 = FALSE, !.brAddr = None]
           [] OTHER                   -> n

IpPossible(cmd, n) == {o \in IpOutcomes : o = "ok" => IpCanSucceed(cmd, n)}

\* the ip command appears in the history when it was spawned
IpEvents(cmd, outcome) == IF outcome = "spawnfail" THEN <<>> ELSE <<"ip_" \o cmd>>

\* ------------------------------------------------- the launcher (parent)
\* Leaving run_in_container: locals are dropped in reverse declaration order,
\* _cgroup (Drop for Cgroup) before the pipe's write end.  c and tr are the
\* cgroup state and the history after the returning statement's own effect.
ReturnFromRun(res, c, tr) ==
    /\ ppc' = "returned"
    /\ result' = res
    /\ cgOwned' = FALSE
    /\ cg' = IF cgOwned THEN Drop(c, childState = "running") ELSE c
    /\ pRead' = Closed(pRead)
    /\ pWrite' = Closed(pWrite)
    /\ trace' = tr \o (IF cgOwned THEN DropEvents ELSE <<>>) \o <<"return">>

\* mutant of AfterMaps: the release is written right after the /proc writes,
\* ahead of the host-side setup
AfterMaps_ReleaseFirst(u) == "release"

\* where the parent goes after the three /proc writes: `if uid == 0 { ... }`
AfterMaps(u) == IF u = 0 THEN "overlay_dirs" ELSE "release"

\* geteuid / getegid before the pipe and the clone
ParentSnapshot ==
    /\ ppc = "start"
    /\ uid' = euid /\ gid' = egid
    /\ ppc' = "pipe"
    /\ UNCHANGED <<inputVars, fsVars, capVars, pRead, pWrite, cgOwned, ipIdx, waitResult, result,
                   exitCode, pipeBytes, childVars, hostVars, supVars, trace>>

\* let (read_fd, write_fd) = pipe()?
ParentPipe ==
    /\ ppc = "pipe"
    /\ \/ /\ ppc' = "clone"
          /\ pRead' = "open" /\ pWrite' = "open"
          /\ trace' = Append(trace, "pipe")
          /\ UNCHANGED <<result, cgOwned, cg>>
       \/ ReturnFromRun("Err", cg, trace)
    /\ UNCHANGED <<inputVars, fsVars, capVars, uid, gid, ipIdx, waitResult, exitCode, pipeBytes,
                   childVars, procFiles, net, supVars>>

\* clone(...).context("Failed to clone process")?: the child starts with copies
\* of both pipe ends
ParentClone ==
    /\ ppc = "clone"
    /\ \/ /\ ppc' = "close_read"
          /\ cpc' = "close_write" /\ cRead' = "open" /\ cWrite' = "open"
          /\ childState' = "running"
          /\ trace' = Append(trace, "clone")
          /\ UNCHANGED <<result, cgOwned, cg, pRead, pWrite>>
       \/ /\ ReturnFromRun("Err", cg, trace)
          /\ UNCHANGED <<cpc, cRead, cWrite, childState>>
    /\ UNCHANGED <<inputVars, fsVars, capVars, uid, gid, ipIdx, waitResult, exitCode, pipeBytes,
                   childStatus, readCount, procFiles, net, supVars>>

\* close(read_fd)?: the descriptor is consumed either way
ParentCloseRead ==
    /\ ppc = "close_read"
    /\ \/ /\ ppc' = "uid_map"
          /\ pRead' = "closed"
          /\ trace' = Append(trace, "close_read")
          /\ UNCHANGED <<result, cgOwned, cg, pWrite>>
       \/ ReturnFromRun("Err", cg, trace)
    /\ UNCHANGED <<inputVars, fsVars, capVars, uid, gid, ipIdx, waitResult, exitCode, pipeBytes,
                   childVars, procFiles, net, supVars>>

\* write_proc_file(child_pid, file, data)? at position `at`
write_proc_file(at, file, data, next) ==
    /\ ppc = at
    /\ \/ /\ ppc' = next
          /\ procFiles' = [procFiles EXCEPT ![file] = Some(data)]
          /\ trace' = Append(trace, file)
          /\ UNCHANGED <<result, cgOwned, cg, pRead, pWrite>>
       \/ /\ ReturnFromRun("Err", cg, trace)
          /\ UNCHANGED procFiles
    /\ UNCHANGED <<inputVars, fsVars, capVars, uid, gid, ipIdx, waitResult, exitCode, pipeBytes,
                   childVars, net, supVars>>

\* "0 <uid> 1\n"
ParentWriteUidMap == write_proc_file("uid_map", "uid_map", <<0, uid, 1>>, "setgroups")
\* "deny\n"
ParentWriteSetgroups == write_proc_file("setgroups", "setgroups", "deny", "gid_map")
\* mutant of ParentWriteGidMap: the uid is written into gid_map
ParentWriteGidMap_WritesUid ==
    write_proc_file("gid_map", "gid_map", <<0, uid, 1>>, AfterMaps(uid))

\* "0 <gid> 1\n"
ParentWriteGidMap == write_proc_file("gid_map", "gid_map", <<0, gid, 1>>, AfterMaps(uid))

\* fs::create_overlay_dirs("fs")? in the parent
ParentOverlayDirs ==
    /\ ppc = "overlay_dirs"
    /\ \/ /\ ppc' = "net"
          /\ fsEntries' = create_overlay_dirs(fsEntries)
          /\ trace' = Append(trace, "overlay_dirs")
          /\ UNCHANGED <<result, cgOwned, cg, pRead, pWrite>>
       \/ /\ ReturnFromRun("Err", cg, trace)
          /\ fsEntries' \in create_overlay_dirs_failed(fsEntries)
    /\ UNCHANGED <<inputVars, lowerdir, capVars, uid, gid, ipIdx, waitResult, exitCode, pipeBytes,
                   childVars, procFiles, net, supVars>>

\* net::setup_network_host(&cidr)?: create_bridge, then create_veth_pair, one
\* ip command per step; `?` leaves at the first command that returns Err
ParentSetupNetworkHost ==
    /\ ppc = "net"
    /\ IF ips_from_cidr(container_net_cidr)[1] = "Err"
         THEN /\ ReturnFromRun("Err", cg, trace)
              /\ UNCHANGED <<net, ipIdx>>
         ELSE \E o \in IpPossible(HostCmds[ipIdx], net) :
                /\ net' = IpEffect(HostCmds[ipIdx], o, net)
                /\ IF ip(o) = "Ok"
                     THEN /\ ppc' = IF ipIdx = Len(HostCmds) THEN "move" ELSE "net"
                          /\ ipIdx' = IF ipIdx = Len(HostCmds) THEN ipIdx ELSE ipIdx + 1
                          /\ trace' = trace \o IpEvents(HostCmds[ipIdx], o)
                          /\ UNCHANGED <<result, cgOwned, cg, pRead, pWrite>>
                     ELSE /\ ReturnFromRun("Err", cg, trace)
                          /\ UNCHANGED ipIdx
    /\ UNCHANGED <<inputVars, fsVars, capVars, uid, gid, waitResult, exitCode, pipeBytes,
                   childVars, procFiles, supVars>>

\* net::move_into_container(child_pid)?
ParentMoveIntoContainer ==
    /\ ppc = "move"
    /\ \E o \in IpPossible("netns_veth0c0", net) :
         /\ net' = IpEffect("netns_veth0c0", o, net)
         /\ IF ip(o) = "Ok"
              THEN /\ ppc' = "cgroup_new"
                   /\ trace' = trace \o IpEvents("netns_veth0c0", o)
                   /\ UNCHANGED <<result, cgOwned, cg, pRead, pWrite>>
              ELSE ReturnFromRun("Err", cg, trace)
    /\ UNCHANGED <<inputVars, fsVars, capVars, uid, gid, ipIdx, waitResult, exitCode, pipeBytes,
                   childVars, procFiles, supVars>>

\* --------------------------------------------------------- cgroup manager
\* the failures a call of Cgroup::new can meet in the file system
CgFails == {"none", "mkdir_parent", "mkdir_leaf", "write_mem", "write_cpu"}

\* mutant of ensure_base_cgroup: both controllers are named in the
\* subtree_control writes, whatever was requested
ensure_base_cgroup_BothControllers(c, need_memory, need_cpu, fail, rootOk, baseOk) ==
    LET mkFails == ~c.leaf /\ fail \in {"mkdir_parent", "mkdir_leaf"}
        c1 == IF c.leaf \/ fail = "mkdir_parent" THEN c
              ELSE IF fail = "mkdir_leaf" THEN [c EXCEPT !.parent = TRUE]
              ELSE [c EXCEPT !.parent = TRUE, !.leaf = TRUE]
        controllers == {"+memory", "+cpu"}
        root2 == IF rootOk THEN c1.rootCtl \cup controllers ELSE c1.rootCtl
        base2 == IF baseOk /\ controllers \subseteq root2
                   THEN c1.baseCtl \cup controllers ELSE c1.baseCtl
    IN  IF mkFails THEN [ok |-> FALSE, cg |-> c1, ev |-> <<>>]
        ELSE [ok |-> TRUE,
              cg |-> [c1 EXCEPT !.rootCtl = root2, !.baseCtl = base2],
              ev |-> <<"mkdir_cgroup", "subtree_control_root", "subtree_control_base">>]

\* Cgroup::ensure_base_cgroup: create_dir_all of toy_container/leaf when it does
\* not exist, then the two best-effort subtree_control writes (rootOk, baseOk:
\* whether the file system accepts them; a controller can be enabled in
\* toy_container only when the root cgroup delegates it)
ensure_base_cgroup(c, need_memory, need_cpu, fail, rootOk, baseOk) ==
    LET mkFails == ~c.leaf /\ fail \in {"mkdir_parent", "mkdir_leaf"}
        c1 == IF c.leaf \/ fail = "mkdir_parent" THEN c
              ELSE IF fail = "mkdir_leaf" THEN [c EXCEPT !.parent = TRUE]
              ELSE [c EXCEPT !.parent = TRUE, !.leaf = TRUE]
        controllers == (IF need_memory THEN {"+memory"} ELSE {})
                         \cup (IF need_cpu THEN {"+cpu"} ELSE {})
        root2 == IF rootOk THEN c1.rootCtl \cup controllers ELSE c1.rootCtl
        base2 == IF baseOk /\ controllers \subseteq root2
                   THEN c1.baseCtl \cup controllers ELSE c1.baseCtl
    IN  IF mkFails THEN [ok |-> FALSE, cg |-> c1, ev |-> <<>>]
        ELSE IF controllers = {}
          THEN [ok |-> TRUE, cg |-> c1, ev |-> <<"mkdir_cgroup">>]
        ELSE [ok |-> TRUE,
              cg |-> [c1 EXCEPT !.rootCtl = root2, !.baseCtl = base2],
              ev |-> <<"mkdir_cgroup", "subtree_control_root", "subtree_control_base">>]

\* Cgroup::set_memory_limit: fs::write(leaf/memory.max, limit); the file exists
\* only while the memory controller is enabled for the leaf
set_memory_limit(c, limit, fail) ==
    IF fail = "write_mem" \/ "+memory" \notin c.baseCtl
      THEN [ok |-> FALSE, cg |-> c, ev |-> <<>>]
      ELSE [ok |-> TRUE, cg |-> [c EXCEPT !.memMax = Some(limit)], ev |-> <<"memory.max">>]

\* Cgroup::set_cpu_limit: parse_cpu_quota(quota)?, then fs::write(leaf/cpu.max)
set_cpu_limit(c, quota, fail) ==
    LET q == parse_cpu_quota(quota)
    IN  IF q[1] = "Err" \/ fail = "write_cpu" \/ "+cpu" \notin c.baseCtl
          THEN [ok |-> FALSE, cg |-> c, ev |-> <<>>]
          ELSE [ok |-> TRUE, cg |-> [c EXCEPT !.cpuMax = Some(q)], ev |-> <<"cpu.max">>]

\* Cgroup::new(cpu, memory): on every Err the Cgroup value built at the top of
\* the function goes out of scope, so its Drop runs
CgroupNew(c, cpuO, memO, fail, rootOk, baseOk, alive) ==
    LET e == ensure_base_cgroup(c, IsSome(memO), IsSome(cpuO), fail, rootOk, baseOk)
        memValid == IsSome(memO) => validate_memory_limit(Unwrap(memO))
        m == IF IsSome(memO) /\ memValid
               THEN set_memory_limit(e.cg, Unwrap(memO), fail)
               ELSE [ok |-> memValid, cg |-> e.cg, ev |-> <<>>]
        u == IF IsSome(cpuO)
               THEN set_cpu_limit(m.cg, Unwrap(cpuO), fail)
               ELSE [ok |-> TRUE, cg |-> m.cg, ev |-> <<>>]
        failed(r, ev) == [ok |-> FALSE, cg |-> Drop(r.cg, alive), ev |-> ev \o DropEvents]
    IN  IF ~e.ok THEN failed(e, e.ev)
        ELSE IF ~m.ok THEN failed(m, e.ev \o m.ev)
        ELSE IF ~u.ok THEN failed(u, e.ev \o m.ev \o u.ev)
        ELSE [ok |-> TRUE, cg |-> u.cg, ev |-> e.ev \o m.ev \o u.ev]

\* let cg = Cgroup::new(cpu, mem)?
ParentCgroupNew ==
    /\ ppc = "cgroup_new"
    /\ \E fail \in CgFails, rootOk \in BOOLEAN, baseOk \in BOOLEAN :
         LET r == CgroupNew(cg, cpu, mem, fail, rootOk, baseOk, childState = "running")
         IN  IF r.ok
               THEN /\ ppc' = "add_process"
                    /\ cg' = r.cg
                    /\ cgOwned' = TRUE
                    /\ trace' = trace \o r.ev
                    /\ UNCHANGED <<result, pRead, pWrite>>
               ELSE ReturnFromRun("Err", r.cg, trace \o r.ev)
    /\ UNCHANGED <<inputVars, fsVars, capVars, uid, gid, ipIdx, waitResult, exitCode, pipeBytes,
                   childVars, procFiles, net, supVars>>

\* cg.add_process(child_pid)?; _cgroup = Some(cg)
ParentAddProcess ==
    /\ ppc = "add_process"
    /\ \/ /\ ppc' = "release"
          /\ cg' = [cg EXCEPT !.attached = TRUE]
          /\ trace' = Append(trace, "cgroup.procs")
          /\ UNCHANGED <<result, cgOwned, pRead, pWrite>>
       \/ ReturnFromRun("Err", cg, trace)
    /\ UNCHANGED <<inputVars, fsVars, capVars, uid, gid, ipIdx, waitResult, exitCode, pipeBytes,
                   childVars, procFiles, net, supVars>>

\* write(&write_fd, b"1")?: the release byte.  With no reader left the write
\* can only fail (EPIPE).
ParentRelease ==
    /\ ppc = "release"
    /\ \/ /\ cRead = "open"
          /\ ppc' = "close_write"
          /\ pipeBytes' = pipeBytes + 1
          /\ trace' = Append(trace, "release")
          /\ UNCHANGED <<result, cgOwned, cg, pRead, pWrite>>
       \/ /\ ReturnFromRun("Err", cg, trace)
          /\ UNCHANGED pipeBytes
    /\ UNCHANGED <<inputVars, fsVars, capVars, uid, gid, ipIdx, waitResult, exitCode,
                   childVars, procFiles, net, supVars>>

\* close(write_fd)?: the descriptor is consumed either way
ParentCloseWrite ==
    /\ ppc = "close_write"
    /\ \/ /\ ppc' = "wait"
          /\ pWrite' = "closed"
          /\ trace' = Append(trace, "close_write")
          /\ UNCHANGED <<result, cgOwned, cg, pRead>>
       \/ ReturnFromRun("Err", cg, trace)
    /\ UNCHANGED <<inputVars, fsVars, capVars, uid, gid, ipIdx, waitResult, exitCode, pipeBytes,
                   childVars, procFiles, net, supVars>>

\* let _ = wait_for_child(child_pid): waitpid blocks until the child has
\* terminated; it then returns the status, or an error (no child left to wait
\* for).  The result is discarded.
ParentWait ==
    /\ ppc = "wait"
    /\ childState = "zombie"
    /\ \E r \in {wait_for_child(childStatus), <<"Err">>} : waitResult' = Some(r)
    /\ childState' = "reaped"
    /\ ppc' = "cleanup"
    /\ trace' = Append(trace, "waitpid")
    /\ UNCHANGED <<inputVars, fsVars, capVars, uid, gid, pRead, pWrite, cgOwned, ipIdx, result,
                   exitCode, pipeBytes, cpc, cRead, cWrite, childStatus, readCount,
                   hostVars, supVars>>

\* mutant of ParentCleanup: when cleanup_network returns Err the launcher stops
\* there, and the cgroup it owns is not dropped
ParentCleanup_AbortsOnFailure ==
    /\ ppc = "cleanup"
    /\ IF uid = 0
         THEN \E o \in IpPossible("link_delete_br0", net) :
                /\ net' = IpEffect("link_delete_br0", o, net)
                /\ IF ip(o) = "Ok"
                     THEN ReturnFromRun("Ok", cg,
                                        Append(trace, "cleanup_network")
                                          \o IpEvents("link_delete_br0", o))
                     ELSE /\ ppc' = "returned"
                          /\ result' = "Err"
                          /\ trace' = trace \o <<"cleanup_network", "return">>
                          /\ UNCHANGED <<cgOwned, cg, pRead, pWrite>>
         ELSE /\ ReturnFromRun("Ok", cg, trace)
              /\ UNCHANGED net
    /\ UNCHANGED <<inputVars, fsVars, capVars, uid, gid, ipIdx, waitResult, exitCode, pipeBytes,
                   childVars, procFiles, supVars>>

\* if uid == 0 { net::cleanup_network()?; }  Ok(())
ParentCleanup ==
    /\ ppc = "cleanup"
    /\ IF uid = 0
         THEN \E o \in IpPossible("link_delete_br0", net) :
                /\ net' = IpEffect("link_delete_br0", o, net)
                /\ ReturnFromRun(ip(o), cg,
                                 Append(trace, "cleanup_network")
                                   \o IpEvents("link_delete_br0", o))
         ELSE /\ ReturnFromRun("Ok", cg, trace)
              /\ UNCHANGED net
    /\ UNCHANGED <<inputVars, fsVars, capVars, uid, gid, ipIdx, waitResult, exitCode, pipeBytes,
                   childVars, procFiles, supVars>>

\* main: ExitCode::FAILURE when run_in_container returned Err, else SUCCESS
Main ==
    /\ ppc = "returned"
    /\ ppc' = "exited"
    /\ exitCode' = IF result = "Err" THEN 1 ELSE 0
    /\ UNCHANGED <<inputVars, fsVars, capVars, uid, gid, pRead, pWrite, cgOwned, ipIdx, waitResult,
                   result, pipeBytes, childVars, hostVars, supVars, trace>>

\* ----------------------------------------------------------- the child
\* what becomes of the workload when init ends without having reaped it
Killed == IF workload = "none" THEN "none" ELSE "gone"

\* The child process ends with exit code `code`: its descriptors close, and as
\* it is PID 1 of the namespace every other process in the container is killed.
\* wl is the workload's state afterwards.
ChildExit(code, wl) ==
    /\ cpc' = "exited"
    /\ childState' = "zombie"
    /\ childStatus' = <<"exited", code>>
    /\ cRead' = Closed(cRead)
    /\ cWrite' = Closed(cWrite)
    /\ workload' = wl
    /\ orphans' = [o \in Orphans |-> IF orphans[o] = "none" THEN "none" ELSE "gone"]
    /\ wlPending' = {} /\ sigPending' = {} /\ curSig' = 0

\* is_parent_root: uid == 0, captured by the closure
is_parent_root == uid = 0

\* mutant of ChildCloseWrite: the child goes on to read with its copy of the
\* write end still open
ChildCloseWrite_KeepsWriteEnd ==
    /\ cpc = "close_write"
    /\ cpc' = "read"
    /\ UNCHANGED <<inputVars, fsVars, capVars, parentVars, pipeBytes, cRead, cWrite, childState,
                   childStatus, readCount, hostVars, supVars, trace>>

\* close(write_fd) in the child: on Err the closure returns 1
ChildCloseWrite ==
    /\ cpc = "close_write"
    /\ \/ /\ cpc' = "read"
          /\ cWrite' = "closed"
          /\ UNCHANGED <<cRead, childState, childStatus, supVars>>
       \/ /\ ChildExit(1, Killed)
          /\ UNCHANGED <<wlStatus, sigCount>>
    /\ UNCHANGED <<inputVars, fsVars, capVars, parentVars, pipeBytes, readCount, hostVars, trace>>

\* read(read_fd, &mut buf): blocks until a byte is in the pipe or every write
\* end is closed.  Ok(1) and Ok(0) (end of file) are both Ok: the byte count is
\* not inspected.  read_fd is moved into the call and closed when it returns.
ChildRead ==
    /\ cpc = "read"
    /\ \/ /\ pipeBytes > 0
          /\ pipeBytes' = pipeBytes - 1
          /\ readCount' = 1
          /\ cpc' = IF is_parent_root THEN "mount_private" ELSE "overlay_dirs"
          /\ cRead' = "closed"
          /\ UNCHANGED <<cWrite, childState, childStatus, supVars>>
       \/ /\ pipeBytes = 0 /\ pWrite # "open" /\ cWrite # "open"
          /\ readCount' = 0
          /\ cpc' = IF is_parent_root THEN "mount_private" ELSE "overlay_dirs"
          /\ cRead' = "closed"
          /\ UNCHANGED <<pipeBytes, cWrite, childState, childStatus, supVars>>
       \/ /\ pipeBytes > 0 \/ (pWrite # "open" /\ cWrite # "open")
          /\ ChildExit(1, Killed)
          /\ UNCHANGED <<pipeBytes, readCount, wlStatus, sigCount>>
    /\ UNCHANGED <<inputVars, fsVars, capVars, parentVars, hostVars, trace>>

\* one fallible step of child(): it performs `ev` and goes on to `next`, or the
\* error reaches the closure, which returns 1; what the step does to the
\* directory fs is stated where it is used
ChildStep(at, ev, next) ==
    /\ cpc = at
    /\ \/ /\ cpc' = next
          /\ trace' = Append(trace, ev)
          /\ UNCHANGED <<cRead, cWrite, childState, childStatus, supVars>>
       \/ /\ ChildExit(1, Killed)
          /\ UNCHANGED <<wlStatus, sigCount, trace>>
    /\ UNCHANGED <<inputVars, capVars, parentVars, pipeBytes, readCount, hostVars>>

\* one ip command of bring_up_container_net, which starts with
\* ips_from_cidr(netw)?
ChildIp(at, cmd, canSucceed, next) ==
    /\ cpc = at
    /\ IF ips_from_cidr(container_net_cidr)[1] = "Err"
         THEN /\ ChildExit(1, Killed)
              /\ UNCHANGED <<wlStatus, sigCount, trace, net>>
         ELSE \E o \in {x \in IpOutcomes : x = "ok" => canSucceed} :
                /\ net' = IpEffect(cmd, o, net)
                /\ IF ip(o) = "Ok"
                     THEN /\ cpc' = next
                          /\ trace' = trace \o IpEvents(cmd, o)
                          /\ UNCHANGED <<cRead, cWrite, childState, childStatus, supVars>>
                     ELSE /\ ChildExit(1, Killed)
                          /\ UNCHANGED <<wlStatus, sigCount, trace>>
    /\ UNCHANGED <<inputVars, fsVars, capVars, parentVars, pipeBytes, readCount, procFiles, cg>>

\* child(): if !config.is_parent_root { fs::create_overlay_dirs("fs")?; }
ChildOverlayDirs ==
    /\ ChildStep("overlay_dirs", "c_overlay_dirs", "mount_private")
    /\ fsEntries' \in IF cpc' = "mount_private" THEN {create_overlay_dirs(fsEntries)}
                      ELSE create_overlay_dirs_failed(fsEntries)
    /\ UNCHANGED lowerdir

\* mutant of ChildMountPrivate: the result of the MS_REC|MS_PRIVATE mount is
\* ignored and the function goes on
ChildMountPrivate_ErrorIgnored ==
    /\ cpc = "mount_private"
    /\ cpc' = "mount_overlay"
    /\ trace' \in {trace, Append(trace, "c_mount_private")}
    /\ UNCHANGED <<inputVars, fsVars, capVars, parentVars, pipeBytes, cRead, cWrite, childState,
                   childStatus, readCount, hostVars, supVars>>

\* fs::create_container_filesystem("fs")?
ChildMountPrivate == ChildStep("mount_private", "c_mount_private", "mount_overlay") /\ UNCHANGED fsVars
\* get_overlay_dirs(root)?, then the overlay mount with lowerdir=<lower>
ChildMountOverlay ==
    /\ ChildStep("mount_overlay", "c_mount_overlay", "mount_proc")
    /\ lowerdir' = IF cpc' = "mount_proc" THEN Some(get_overlay_dirs(fsEntries))
                   ELSE lowerdir
    /\ UNCHANGED fsEntries
ChildMountProc == ChildStep("mount_proc", "c_mount_proc", "pivot_root") /\ UNCHANGED fsVars
ChildPivotRoot == ChildStep("pivot_root", "c_pivot_root", "umount_old") /\ UNCHANGED fsVars
ChildUmountOld ==
    /\ ChildStep("umount_old", "c_umount_old", IF is_parent_root THEN "ip_addr" ELSE "ip_lo")
    /\ UNCHANGED fsVars

\* the steps of create_container_filesystem that change the mount table
MountEvents == {"c_mount_overlay", "c_mount_proc", "c_pivot_root", "c_umount_old"}

\* The mount changes visible on the host.  The child's mount namespace starts
\* as a copy of the host's, whose mounts are its peers: a change the child makes
\* propagates to the host unless the child has made / recursively private.
HostMounts ==
    LET private == {k \in DOMAIN trace : trace[k] = "c_mount_private"}
    IN  {trace[i] : i \in {j \in DOMAIN trace :
                             trace[j] \in MountEvents /\ ~\E k \in private : k < j}}

\* net::bring_up_container_net(&cidr, is_parent_root)?
ChildIpAddr == ChildIp("ip_addr", "c_addr_add_veth0c0", net.moved, "ip_up")
ChildIpUp == ChildIp("ip_up", "c_link_up_veth0c0", net.moved, "ip_route")
ChildIpRoute == ChildIp("ip_route", "c_route_add_default", net.moved, "ip_lo")
ChildIpLo ==
    ChildIp("ip_lo", "c_link_up_lo", TRUE,
            IF IsSome(hostname) THEN "sethostname"
            ELSE IF drop_caps THEN "drop_caps" ELSE "fork")

\* if let Some(hostname) = &config.hostname { sethostname(hostname)?; }
ChildSethostname ==
    /\ ChildStep("sethostname", "c_sethostname", IF drop_caps THEN "drop_caps" ELSE "fork")
    /\ UNCHANGED fsVars

\* if config.drop_caps { drop_caps()?; }: one iteration of
\* `for cap in caps_drop { caps::drop(None, CapSet::Bounding, cap)?; }`, in the
\* set's arbitrary order; the capabilities of caps_drop still to be visited are
\* those still in the bounding set
ChildDropCaps ==
    /\ cpc = "drop_caps"
    /\ \/ \E cap \in caps_drop \cap bounding :
            /\ bounding' = bounding \ {cap}
            /\ cpc' = IF caps_drop \cap bounding' = {} THEN "no_new_privs" ELSE "drop_caps"
            /\ UNCHANGED <<cRead, cWrite, childState, childStatus, supVars>>
       \/ /\ caps_drop \cap bounding # {}
          /\ ChildExit(1, Killed)
          /\ UNCHANGED <<bounding, wlStatus, sigCount>>
       \/ /\ caps_drop \cap bounding = {}
          /\ cpc' = "no_new_privs"
          /\ UNCHANGED <<bounding, cRead, cWrite, childState, childStatus, supVars>>
    /\ UNCHANGED <<inputVars, fsVars, no_new_privs, parentVars, pipeBytes, readCount,
                   hostVars, trace>>

\* nix::sys::prctl::set_no_new_privs()?, the last call of drop_caps
ChildSetNoNewPrivs ==
    /\ cpc = "no_new_privs"
    /\ \/ /\ no_new_privs' = TRUE
          /\ cpc' = "fork"
          /\ trace' = Append(trace, "c_drop_caps")
          /\ UNCHANGED <<cRead, cWrite, childState, childStatus, supVars>>
       \/ /\ ChildExit(1, Killed)
          /\ UNCHANGED <<no_new_privs, wlStatus, sigCount, trace>>
    /\ UNCHANGED <<inputVars, fsVars, bounding, parentVars, pipeBytes, readCount,
                   hostVars>>

\* fork(): the new process execs the workload, the child goes on as init
ChildFork ==
    /\ cpc = "fork"
    /\ \/ /\ cpc' = "init_setup"
          /\ workload' = "running"
          /\ trace' = Append(trace, "c_fork")
          /\ UNCHANGED <<cRead, cWrite, childState, childStatus, wlStatus, wlPending,
                         orphans, sigPending, curSig, sigCount>>
       \/ /\ ChildExit(1, Killed)
          /\ UNCHANGED <<wlStatus, sigCount, trace>>
    /\ UNCHANGED <<inputVars, fsVars, capVars, parentVars, pipeBytes, readCount, hostVars>>

\* ------------------------------------------------- the init supervisor
SupervisorPcs == {"init_setup", "sig_read", "reap", "forward"}

\* the signals run_init blocks and reads from its signalfd
ForwardedSignals == {SIGTERM, SIGINT, SIGQUIT}

\* run_init has blocked its signal mask: a signal sent to it stays pending.
\* Before that SIGCHLD has its default disposition and is discarded.
SignalsBlocked == cpc \in {"sig_read", "reap", "forward"}

Deliver(sig, pending) == IF SignalsBlocked THEN pending \cup {sig} ELSE pending

MinOf(S) == CHOOSE x \in S : \A y \in S : x <= y

\* run_init up to the loop: set_child_subreaper, thread_block()?, SignalFd::new()?
InitSetup ==
    /\ cpc = "init_setup"
    /\ \/ /\ cpc' = "sig_read"
          /\ UNCHANGED <<cRead, cWrite, childState, childStatus, supVars>>
       \/ /\ ChildExit(1, Killed)
          /\ UNCHANGED <<wlStatus, sigCount>>
    /\ UNCHANGED <<inputVars, fsVars, capVars, parentVars, pipeBytes, readCount, hostVars, trace>>

\* signal_fd.read_signal(): blocks until a signal of the mask is pending and
\* dequeues one, the lowest-numbered first; pending signals do not queue
InitReadSignal ==
    /\ cpc = "sig_read"
    /\ sigPending # {}
    /\ curSig' = MinOf(sigPending)
    /\ sigPending' = sigPending \ {curSig'}
    /\ cpc' = IF curSig' = SIGCHLD THEN "reap" ELSE "forward"
    /\ UNCHANGED <<inputVars, fsVars, capVars, parentVars, pipeBytes, cRead, cWrite, childState,
                   childStatus, readCount, hostVars, workload, wlStatus, wlPending,
                   orphans, sigCount, trace>>

\* the re-parented processes waitpid(-1, WNOHANG) can return
ZombieOrphans == {o \in Orphans : orphans[o] = "zombie"}

\* reap_zombies(child): one waitpid(-1, WNOHANG).  The workload's status makes
\* init exit with it; every other Ok (another child's status, StillAlive) and
\* ECHILD leave the loop.  waitpid walks init's children oldest first, and the
\* workload, which init forked, is the oldest.
ReapZombies ==
    /\ cpc = "reap"
    /\ IF workload = "zombie"
         THEN ChildExit(IF wlStatus[1] = "exited" THEN wlStatus[2]
                        ELSE 128 + wlStatus[2], "reaped")
         ELSE IF ZombieOrphans # {}
           THEN \E z \in ZombieOrphans :
                  /\ cpc' = "sig_read" /\ curSig' = 0
                  /\ orphans' = [orphans EXCEPT ![z] = "reaped"]
                  /\ UNCHANGED <<cRead, cWrite, childState, childStatus,
                                 workload, wlPending, sigPending>>
           ELSE /\ cpc' = "sig_read" /\ curSig' = 0
                /\ UNCHANGED <<cRead, cWrite, childState, childStatus, workload,
                               wlPending, orphans, sigPending>>
    /\ UNCHANGED <<inputVars, fsVars, capVars, parentVars, pipeBytes, readCount, hostVars,
                   wlStatus, sigCount, trace>>

\* mutant of ForwardSignal: every forwarded signal is sent as SIGTERM
ForwardSignal_AlwaysTerm ==
    /\ cpc = "forward"
    /\ cpc' = "sig_read"
    /\ curSig' = 0
    /\ wlPending' = IF workload = "running" THEN wlPending \cup {SIGTERM} ELSE wlPending
    /\ UNCHANGED <<inputVars, fsVars, capVars, parentVars, pipeBytes, cRead, cWrite, childState,
                   childStatus, readCount, hostVars, workload, wlStatus, orphans,
                   sigPending, sigCount, trace>>

\* kill(child, signal)?: the workload's pid exists until init reaps it; the
\* iteration ends and `signal` goes out of scope
ForwardSignal ==
    /\ cpc = "forward"
    /\ cpc' = "sig_read"
    /\ curSig' = 0
    /\ wlPending' = IF workload = "running" THEN wlPending \cup {curSig} ELSE wlPending
    /\ UNCHANGED <<inputVars, fsVars, capVars, parentVars, pipeBytes, cRead, cWrite, childState,
                   childStatus, readCount, hostVars, workload, wlStatus, orphans,
                   sigPending, sigCount, trace>>

\* -------------------------------------- the processes inside the container
\* the workload (or a failed execve) exits with a code
WorkloadExit ==
    /\ workload = "running"
    /\ \E c \in ExitCodes : wlStatus' = <<"exited", c>>
    /\ workload' = "zombie"
    /\ sigPending' = Deliver(SIGCHLD, sigPending)
    /\ UNCHANGED <<inputVars, fsVars, capVars, parentVars, pipeBytes, childVars, hostVars, wlPending,
                   orphans, curSig, sigCount, trace>>

\* signals that kill the workload without init having forwarded them: SIGKILL
KillSignals == {9}

\* the workload is killed by a signal: one that init forwarded, or SIGKILL
WorkloadKilled ==
    /\ workload = "running"
    /\ \E sg \in wlPending \cup KillSignals : wlStatus' = <<"signaled", sg>>
    /\ workload' = "zombie"
    /\ sigPending' = Deliver(SIGCHLD, sigPending)
    /\ UNCHANGED <<inputVars, fsVars, capVars, parentVars, pipeBytes, childVars, hostVars, wlPending,
                   orphans, curSig, sigCount, trace>>

\* a descendant of the workload is orphaned and re-parented to init; the
\* orphans are numbered in the order in which they appear
OrphanAppears(o) ==
    /\ workload = "running"
    /\ orphans[o] = "none"
    /\ \A k \in 1..(o - 1) : orphans[k] # "none"
    /\ orphans' = [orphans EXCEPT ![o] = "running"]
    /\ UNCHANGED <<inputVars, fsVars, capVars, parentVars, pipeBytes, childVars, hostVars, workload,
                   wlStatus, wlPending, sigPending, curSig, sigCount, trace>>

\* a re-parented process terminates
OrphanExit(o) ==
    /\ cpc \in SupervisorPcs
    /\ orphans[o] = "running"
    /\ orphans' = [orphans EXCEPT ![o] = "zombie"]
    /\ sigPending' = Deliver(SIGCHLD, sigPending)
    /\ UNCHANGED <<inputVars, fsVars, capVars, parentVars, pipeBytes, childVars, hostVars, workload,
                   wlStatus, wlPending, curSig, sigCount, trace>>

\* SIGTERM, SIGINT or SIGQUIT is sent to the init supervisor.  Init is PID 1 of
\* its namespace: until run_init has blocked the signal, the kernel drops it.
SignalInit(sig) ==
    /\ cpc \in SupervisorPcs
    /\ sigCount < MaxSignals
    /\ sigCount' = sigCount + 1
    /\ sigPending' = Deliver(sig, sigPending)
    /\ UNCHANGED <<inputVars, fsVars, capVars, parentVars, pipeBytes, childVars, hostVars, workload,
                   wlStatus, wlPending, orphans, curSig, trace>>

\* A signal whose default action is to terminate is sent to the launcher.  main
\* and run_in_container install no handler and block nothing: the launcher dies
\* at once (it has no exit code), no destructor runs, its descriptors close.
SignalLauncher(sig) ==
    /\ ppc \in {"wait", "cleanup", "returned"}
    /\ ppc' = "killed"
    /\ pRead' = Closed(pRead)
    /\ pWrite' = Closed(pWrite)
    /\ UNCHANGED <<inputVars, fsVars, capVars, uid, gid, cgOwned, ipIdx, waitResult, result, exitCode,
                   pipeBytes, childVars, hostVars, supVars, trace>>

\* ------------------------------------------------------ the specification
\* One launch, from main to the launcher's exit, with a container in which the
\* workload is the only process besides init and nobody signals init.
Next ==
    \/ ParentSnapshot
    \/ ParentPipe
    \/ ParentClone
    \/ ParentCloseRead
    \/ ParentWriteUidMap
    \/ ParentWriteSetgroups
    \/ ParentWriteGidMap
    \/ ParentOverlayDirs
    \/ ParentSetupNetworkHost
    \/ ParentMoveIntoContainer
    \/ ParentCgroupNew
    \/ ParentAddProcess
    \/ ParentRelease
    \/ ParentCloseWrite
    \/ ParentWait
    \/ ParentCleanup
    \/ Main
    \/ ChildCloseWrite
    \/ ChildRead
    \/ ChildOverlayDirs
    \/ ChildMountPrivate
    \/ ChildMountOverlay
    \/ ChildMountProc
    \/ ChildPivotRoot
    \/ ChildUmountOld
    \/ ChildIpAddr
    \/ ChildIpUp
    \/ ChildIpRoute
    \/ ChildIpLo
    \/ ChildSethostname
    \/ ChildDropCaps
    \/ ChildSetNoNewPrivs
    \/ ChildFork
    \/ InitSetup
    \/ InitReadSignal
    \/ ReapZombies
    \/ WorkloadExit
    \/ WorkloadKilled

Spec == Init /\ [][Next]_vars

\* The launch up to the barrier: the whole launcher, and the child until its
\* read has returned.  The hostname and drop_caps options are used only after
\* the barrier and are left out, and so is the CPU limit: in Cgroup::new it is
\* one more step that can fail, as the memory limit is.
BarrierInit == Init /\ hostname = None /\ drop_caps = FALSE /\ cpu = None

LauncherStep ==
    \/ ParentSnapshot
    \/ ParentPipe
    \/ ParentClone
    \/ ParentCloseRead
    \/ ParentWriteUidMap
    \/ ParentWriteSetgroups
    \/ ParentWriteGidMap
    \/ ParentOverlayDirs
    \/ ParentSetupNetworkHost
    \/ ParentMoveIntoContainer
    \/ ParentCgroupNew
    \/ ParentAddProcess
    \/ ParentRelease
    \/ ParentCloseWrite
    \/ ParentWait
    \/ ParentCleanup
    \/ Main

BarrierStep == ChildCloseWrite \/ ChildRead

BarrierNext == LauncherStep \/ BarrierStep

\* The processes are scheduled: while one of them can take a step, a step is
\* taken.  No step of the launcher blocks except waitpid, which is enabled only
\* when the child has terminated, and the child's read is enabled only when it
\* can return.
BarrierSpec == BarrierInit /\ [][BarrierNext]_vars /\ WF_vars(BarrierNext)

\* The init supervisor with everything that can happen around it: re-parented
\* processes and signals sent to init.  It starts where an unprivileged launch
\* without options stands when the child has forked the workload (a state Spec
\* reaches, see SupInitReached).
SupInit ==
    /\ euid = 1000 /\ egid = 1001
    /\ cpu = None /\ mem = None /\ hostname = None /\ drop_caps = FALSE
    /\ ppc = "wait" /\ uid = 1000 /\ gid = 1001
    /\ pRead = "closed" /\ pWrite = "closed"
    /\ cgOwned = FALSE /\ ipIdx = 1
    /\ waitResult = None /\ result = "none" /\ exitCode = -1
    /\ pipeBytes = 0
    /\ cpc = "init_setup" /\ cRead = "closed" /\ cWrite = "closed"
    /\ childState = "running" /\ childStatus = <<"none">> /\ readCount = 1
    /\ procFiles = [f \in {"uid_map", "setgroups", "gid_map"} |->
                      IF f = "uid_map" THEN Some(<<0, 1000, 1>>)
                      ELSE IF f = "gid_map" THEN Some(<<0, 1001, 1>>)
                      ELSE Some("deny")]
    /\ net = [br0 |-> FALSE, veth |-> FALSE, moved |-> FALSE,
              brAddr |-> None, cAddr |-> None, gw |-> None]
    /\ cg = [parent |-> FALSE, leaf |-> FALSE, attached |-> FALSE,
             memMax |-> None, cpuMax |-> None, rootCtl |-> {}, baseCtl |-> {}]
    /\ workload = "running" /\ wlStatus = <<"none">> /\ wlPending = {}
    /\ orphans = [o \in Orphans |-> "none"]
    /\ sigPending = {} /\ curSig = 0 /\ sigCount = 0
    /\ fsEntries = create_overlay_dirs(DefaultEntries)
    /\ lowerdir = Some(get_overlay_dirs(fsEntries))
    /\ bounding = Capabilities /\ no_new_privs = FALSE
    /\ trace = <<"pipe", "clone", "close_read", "uid_map", "setgroups", "gid_map",
                 "release", "close_write", "c_overlay_dirs", "c_mount_private",
                 "c_mount_overlay", "c_mount_proc", "c_pivot_root", "c_umount_old",
                 "ip_c_link_up_lo", "c_fork">>

SupNext ==
    \/ InitSetup
    \/ InitReadSignal
    \/ ReapZombies
    \/ ForwardSignal
    \/ WorkloadExit
    \/ WorkloadKilled
    \/ \E o \in Orphans : OrphanAppears(o)
    \/ \E o \in Orphans : OrphanExit(o)
    \/ \E sig \in ForwardedSignals : SignalInit(sig)
    \/ \E sig \in ForwardedSignals : SignalLauncher(sig)
    \/ ParentWait
    \/ ParentCleanup
    \/ Main

SupSpec == SupInit /\ [][SupNext]_vars

\* The supervisor is a running process: whenever one of its steps can be
\* taken, it is taken.
LiveSupSpec ==
    /\ SupSpec
    /\ WF_vars(InitSetup)
    /\ WF_vars(InitReadSignal)
    /\ WF_vars(ReapZombies)
    /\ WF_vars(ForwardSignal)

\* Cgroup::new on every limit string of MemStrings and CpuStrings.  It starts
\* where a root launch without hostname stands when the host network is set
\* up and the child waits for the release (a state Spec reaches for the limit
\* strings of MemInputs and CpuInputs, see LimitInitReached).
LimitInit ==
    /\ euid = 0 /\ egid = 0
    /\ cpu \in CpuStrings /\ mem \in MemStrings
    /\ hostname = None /\ drop_caps = FALSE
    /\ ppc = "cgroup_new" /\ uid = 0 /\ gid = 0
    /\ pRead = "closed" /\ pWrite = "open"
    /\ cgOwned = FALSE /\ ipIdx = Len(HostCmds)
    /\ waitResult = None /\ result = "none" /\ exitCode = -1
    /\ pipeBytes = 0
    /\ cpc = "read" /\ cRead = "open" /\ cWrite = "closed"
    /\ childState = "running" /\ childStatus = <<"none">> /\ readCount = -1
    /\ procFiles = [f \in {"uid_map", "setgroups", "gid_map"} |->
                      IF f = "setgroups" THEN Some("deny") ELSE Some(<<0, 0, 1>>)]
    /\ net = [br0 |-> TRUE, veth |-> TRUE, moved |-> TRUE,
              brAddr |-> Some(WithSuffix24(ips_from_cidr(container_net_cidr)[2])),
              cAddr |-> None, gw |-> None]
    /\ cg = [parent |-> FALSE, leaf |-> FALSE, attached |-> FALSE,
             memMax |-> None, cpuMax |-> None, rootCtl |-> {}, baseCtl |-> {}]
    /\ workload = "none" /\ wlStatus = <<"none">> /\ wlPending = {}
    /\ orphans = [o \in Orphans |-> "none"]
    /\ sigPending = {} /\ curSig = 0 /\ sigCount = 0
    /\ fsEntries = create_overlay_dirs(DefaultEntries) /\ lowerdir = None
    /\ bounding = Capabilities /\ no_new_privs = FALSE
    /\ trace = <<"pipe", "clone", "close_read", "uid_map", "setgroups", "gid_map",
                 "overlay_dirs", "ip_link_add_br0", "ip_addr_add_br0", "ip_link_up_br0",
                 "ip_link_add_veth", "ip_link_up_veth0h0", "ip_link_master_br0",
                 "ip_netns_veth0c0">>

LimitNext ==
    \/ ParentCgroupNew
    \/ ParentAddProcess
    \/ ParentRelease
    \/ Main

LimitSpec == LimitInit /\ [][LimitNext]_vars

\* LimitInit with limit strings of Spec is a state of Spec: TLC reaches it
LimitInitReached == LimitInit /\ cpu \in CpuInputs /\ mem \in MemInputs

\* The layer discovery on every directory content of SUBSET EntryUniverse.  It
\* starts where an unprivileged launch without options stands when the child
\* has read the release byte (a state Spec reaches for the directory content
\* of Spec, see FsInitReached).
FsInit ==
    /\ euid = 1000 /\ egid = 1001
    /\ cpu = None /\ mem = None /\ hostname = None /\ drop_caps = FALSE
    /\ ppc = "wait" /\ uid = 1000 /\ gid = 1001
    /\ pRead = "closed" /\ pWrite = "closed"
    /\ cgOwned = FALSE /\ ipIdx = 1
    /\ waitResult = None /\ result = "none" /\ exitCode = -1
    /\ pipeBytes = 0
    /\ cpc = "overlay_dirs" /\ cRead = "closed" /\ cWrite = "closed"
    /\ childState = "running" /\ childStatus = <<"none">> /\ readCount = 1
    /\ procFiles = [f \in {"uid_map", "setgroups", "gid_map"} |->
                      IF f = "uid_map" THEN Some(<<0, 1000, 1>>)
                      ELSE IF f = "gid_map" THEN Some(<<0, 1001, 1>>)
                      ELSE Some("deny")]
    /\ net = [br0 |-> FALSE, veth |-> FALSE, moved |-> FALSE,
              brAddr |-> None, cAddr |-> None, gw |-> None]
    /\ cg = [parent |-> FALSE, leaf |-> FALSE, attached |-> FALSE,
             memMax |-> None, cpuMax |-> None, rootCtl |-> {}, baseCtl |-> {}]
    /\ workload = "none" /\ wlStatus = <<"none">> /\ wlPending = {}
    /\ orphans = [o \in Orphans |-> "none"]
    /\ sigPending = {} /\ curSig = 0 /\ sigCount = 0
    /\ fsEntries \in SUBSET EntryUniverse /\ lowerdir = None
    /\ bounding = Capabilities /\ no_new_privs = FALSE
    /\ trace = <<"pipe", "clone", "close_read", "uid_map", "setgroups", "gid_map",
                 "release", "close_write">>

FsNext ==
    \/ ChildOverlayDirs
    \/ ChildMountPrivate
    \/ ChildMountOverlay
    \/ ParentWait
    \/ ParentCleanup
    \/ Main

FsSpec == FsInit /\ [][FsNext]_vars

\* FsInit with the directory content of Spec is a state of Spec: TLC reaches it
FsInitReached == FsInit /\ fsEntries = DefaultEntries

\* SupInit is a state of Spec: TLC reaches it (the negation is violated)
SupInitReached == SupInit

\* ------------------------------------------------------------- the claims
Events == {trace[i] : i \in DOMAIN trace}
Positions(e) == {i \in DOMAIN trace : trace[i] = e}
\* how many times e was performed
Occurrences(e) == Len(SelectSeq(trace, LAMBDA x : x = e))
\* e was performed, and before position j
Before(e, j) == \E i \in 1..(j - 1) : trace[i] = e
Returned == ppc \in {"returned", "exited"}

\* the status the specification assigns to a terminated process
Translated(ws) ==
    CASE ws[1] = "exited"   -> ws[2]
      [] ws[1] = "signaled" -> 128 + ws[2]
      [] OTHER              -> 1

\* C1: when the launcher has exited after a launch whose workload terminated
\* and was reaped by init, the launcher's exit code is the workload's
\* translated status: its exit code, or 128 + N when signal N killed it.
C1_ExitCodeIsWorkloadStatus ==
    (ppc = "exited" /\ result = "Ok" /\ workload = "reaped")
        => exitCode = Translated(wlStatus)

\* the steps child() performs once its read has returned
ChildInitEvents ==
    {"c_overlay_dirs", "c_mount_private", "c_mount_overlay", "c_mount_proc",
     "c_pivot_root", "c_umount_old", "ip_c_addr_add_veth0c0", "ip_c_link_up_veth0c0",
     "ip_c_route_add_default", "ip_c_link_up_lo", "c_sethostname", "c_drop_caps",
     "c_fork"}

\* C2: every initialisation step the child has performed comes after the
\* parent's write of the release byte.
C2_NoChildInitBeforeRelease ==
    \A i \in DOMAIN trace : trace[i] \in ChildInitEvents => Before("release", i)

\* C3: once run_in_container has returned, the bridge br0 does not exist (it
\* was never created, or it has been deleted).
C3_BridgeDeletedOnReturn == Returned => ~net.br0

\* C4: once run_in_container has returned, neither the leaf cgroup directory
\* nor toy_container exists.
C4_CgroupRemovedOnReturn == Returned => (~cg.leaf /\ ~cg.parent)

\* C5: run_in_container never returns after a successful clone without having
\* waited on the child.
C5_ChildWaitedBeforeReturn ==
    (Returned /\ "clone" \in Events) => "waitpid" \in Events

\* the launch inputs carry a limit string the validators reject
InvalidLimits ==
    \/ IsSome(mem) /\ ~validate_memory_limit(Unwrap(mem))
    \/ IsSome(cpu) /\ parse_cpu_quota(Unwrap(cpu))[1] = "Err"

\* C6: with an invalid memory or CPU string the launch has no side effect: no
\* pipe, no child, no /proc write, no overlay directory, no ip command, no
\* cgroup directory.
C6_InvalidLimitsNoSideEffect ==
    InvalidLimits =>
        /\ Events \subseteq {"return"}
        /\ pRead = "none" /\ pWrite = "none" /\ childState = "none"
        /\ \A f \in DOMAIN procFiles : procFiles[f] = None
        /\ ~net.br0 /\ ~net.veth /\ ~cg.parent /\ ~cg.leaf

\* the configuration steps the parent performs for the child
MapEvents == {"uid_map", "setgroups", "gid_map"}
HostIpEvents == {"ip_" \o HostCmds[k] : k \in DOMAIN HostCmds} \cup {"ip_netns_veth0c0"}
RootConfigEvents ==
    {"overlay_dirs", "mkdir_cgroup", "subtree_control_root", "subtree_control_base",
     "memory.max", "cpu.max", "cgroup.procs"} \cup HostIpEvents

\* C7: when the release byte is written, the three /proc writes have been made,
\* and for a root launcher also the overlay directories, every bridge and veth
\* command, the move of veth0c0, the requested limit writes and the attachment
\* of the child; no configuration step comes after the release.
C7_ConfigBeforeRelease ==
    \A j \in Positions("release") :
       LET pre == {trace[i] : i \in 1..(j - 1)}
           post == {trace[i] : i \in j..Len(trace)}
       IN  /\ post \cap (MapEvents \cup RootConfigEvents) = {}
           /\ MapEvents \subseteq pre
           /\ uid = 0 =>
                /\ HostIpEvents \cup {"overlay_dirs", "cgroup.procs"} \subseteq pre
                /\ IsSome(mem) => "memory.max" \in pre
                /\ IsSome(cpu) => "cpu.max" \in pre

\* C7 witness: a root launch with both limits has written the release byte
C7_Witness ==
    uid = 0 /\ IsSome(mem) /\ IsSome(cpu) /\ "release" \in Events /\ cg.attached

\* C9: uid_map, setgroups and gid_map are each written at most once, in that
\* order; all three have been written when the release byte is; gid_map is
\* written only after setgroups = deny; the ids are the launcher's effective
\* ids, taken before the clone.
C9_ProcWritesOnceInOrder ==
    /\ \A e \in MapEvents : Occurrences(e) <= 1
    /\ \A j \in Positions("release") :
         MapEvents \subseteq {trace[i] : i \in 1..(j - 1)}
    /\ \A j \in Positions("setgroups") : Before("uid_map", j)
    /\ \A j \in Positions("gid_map") :
         Before("setgroups", j) /\ procFiles["setgroups"] = Some("deny")
    /\ "uid_map" \in Events => procFiles["uid_map"] = Some(<<0, euid, 1>>)
    /\ "gid_map" \in Events => procFiles["gid_map"] = Some(<<0, egid, 1>>)
    /\ "clone" \in Events => (uid = euid /\ gid = egid)

\* C9 witness: an unprivileged launch has written all three files and released
C9_Witness ==
    /\ euid = 1000 /\ "release" \in Events
    /\ procFiles["gid_map"] = Some(<<0, 1001, 1>>)

\* the operations that tear host state down
TeardownEvents == {"cleanup_network", "ip_link_delete_br0", "rmdir_leaf", "rmdir_parent"}

\* C8: every teardown operation (deleting br0, removing the cgroup leaf and
\* parent directories) comes after waitpid on the child has returned, and once
\* waitpid has returned the launcher does not return without having run the
\* teardown.
C8_TeardownOnlyAfterWait ==
    /\ \A i \in DOMAIN trace : trace[i] \in TeardownEvents => Before("waitpid", i)
    /\ (ppc = "returned" /\ "waitpid" \in Events /\ uid = 0) =>
          /\ "cleanup_network" \in Events
          /\ "mkdir_cgroup" \in Events => "rmdir_leaf" \in Events

\* the workload has terminated while the supervisor is in its loop
WorkloadTerminated == workload = "zombie" /\ cpc \in {"sig_read", "reap", "forward"}

\* init has exited with the workload's translated status
InitExitedWithStatus ==
    /\ cpc = "exited"
    /\ workload = "reaped"
    /\ childStatus = <<"exited", Translated(wlStatus)>>

\* C10: whenever the workload has terminated, the init supervisor eventually
\* exits with the workload's translated status.
C10_InitExitsWithWorkloadStatus == WorkloadTerminated ~> InitExitedWithStatus

\* C11 (steps): a signal init dequeues that is not SIGCHLD takes it to the
\* forwarding step; that step sends exactly the dequeued signal to the workload
\* and to nothing else, and leaves init running in its loop; the workload gets
\* no signal in any other step; a signal that kills the launcher changes
\* nothing inside the container.
C11_ForwardStep ==
    /\ (cpc = "sig_read" /\ cpc' # cpc /\ curSig' \in ForwardedSignals) => cpc' = "forward"
    /\ (cpc = "forward" /\ cpc' # cpc) =>
          /\ cpc' = "sig_read" /\ childState' = "running"
          /\ workload = "running" => wlPending' = wlPending \cup {curSig}
          /\ orphans' = orphans /\ workload' = workload
    /\ \A sg \in wlPending' \ wlPending : cpc = "forward" /\ sg = curSig
    /\ (ppc # "killed" /\ ppc' = "killed") =>
          /\ sigPending' = sigPending /\ wlPending' = wlPending
          /\ cpc' = cpc /\ workload' = workload

\* C11: every SIGTERM, SIGINT or SIGQUIT pending for init while the workload
\* runs is eventually forwarded, as that signal, to the workload (unless the
\* workload terminates first); forwarding does not end init; a signal sent to
\* the launcher is not forwarded.
C11_SignalsForwarded ==
    /\ [][C11_ForwardStep]_vars
    /\ \A sig \in ForwardedSignals :
          (sig \in sigPending /\ workload = "running")
             ~> ((cpc = "forward" /\ curSig = sig) \/ workload # "running")

\* C11 witness: init has forwarded SIGINT to the running workload and is back in
\* its loop, and the launcher has been killed by a signal of its own
C11_Witness ==
    /\ SIGINT \in wlPending /\ workload = "running" /\ cpc = "sig_read"
    /\ ppc = "killed"

\* C12: the host's mount points are the same as before the launch at every
\* moment, and so after run returns: every overlay mount, proc mount,
\* pivot_root and unmount the child has performed came after it made /
\* recursively private, also when a later mount step failed.
C12_HostMountsUnchanged == HostMounts = {}

\* C12 witness: run has returned from a launch whose overlay mount succeeded
\* and whose proc mount failed
C12_Witness ==
    /\ Returned /\ childState = "reaped"
    /\ "c_mount_overlay" \in Events /\ "c_mount_proc" \notin Events

\* the two places that recreate upper, workdir and mount
RecreateEvents == {"overlay_dirs", "c_overlay_dirs"}

\* C13: in a launch the scratch directories are recreated at most once, and
\* before the overlay mount is attempted: by the parent before the release
\* byte when the launcher is root, by the child after the release when it is
\* not; so the directories are empty whenever the overlay mount is attempted.
C13_ScratchDirsRecreatedOnce ==
    /\ Cardinality({i \in DOMAIN trace : trace[i] \in RecreateEvents}) <= 1
    /\ \A i \in Positions("c_mount_overlay") :
          \E e \in RecreateEvents : Before(e, i)
    /\ \A i \in Positions("overlay_dirs") :
          euid = 0 /\ \A j \in Positions("release") : i < j
    /\ \A i \in Positions("c_overlay_dirs") : euid # 0 /\ Before("release", i)

\* C14 as claimed: the bridge gets the second host address of the network and
\* the container the third, so for 192.168.200.0/24 veth0c0 is assigned
\* 192.168.200.3/24; the default route points at the bridge's address; both
\* addresses carry the suffix /24.
C14_SecondAndThirdHostAddress ==
    /\ IsSome(net.brAddr) => net.brAddr = Some(<<AddrAdd(container_net_cidr.addr, 2), 24>>)
    /\ IsSome(net.cAddr) => net.cAddr = Some(<<AddrAdd(container_net_cidr.addr, 3), 24>>)
    /\ IsSome(net.cAddr) => net.cAddr = Some(<<(<<192, 168, 200, 3>>), 24>>)
    /\ (IsSome(net.gw) /\ IsSome(net.brAddr)) => net.gw = Some(Unwrap(net.brAddr)[1])

\* C14 amended: the bridge gets the second address of the network (its first
\* host address, 192.168.200.1) and the container the third (its second host
\* address, 192.168.200.2), both with the suffix /24; the default route points
\* at the bridge's address.
C14_SecondAndThirdAddress ==
    /\ IsSome(net.brAddr) => net.brAddr = Some(<<(<<192, 168, 200, 1>>), 24>>)
    /\ IsSome(net.cAddr) => net.cAddr = Some(<<(<<192, 168, 200, 2>>), 24>>)
    /\ (IsSome(net.gw) /\ IsSome(net.brAddr)) => net.gw = Some(Unwrap(net.brAddr)[1])
    /\ IsSome(net.gw) => net.gw = Some(<<192, 168, 200, 1>>)

\* C14 witness: a root launch has addressed the bridge and veth0c0 and set the
\* default route
C14_Witness == IsSome(net.brAddr) /\ IsSome(net.cAddr) /\ IsSome(net.gw)

\* C15: a non-zero exit of an ip command makes the helper return an error, so
\* host network setup stops at the first command that does not exit 0 and the
\* release byte is not written after it: when a root launcher has written the
\* release byte, every setup command has exited 0, that is, br0 exists and has
\* its address, the veth pair exists and veth0c0 has been moved.
C15_NonZeroIpAbortsSetup ==
    (uid = 0 /\ "release" \in Events /\ ppc \in {"close_write", "wait"}) =>
        /\ net.br0 /\ IsSome(net.brAddr)
        /\ net.veth /\ net.moved

\* Cgroup::new has been called in this launch
CgroupNewCalled == "ip_netns_veth0c0" \in Events /\ ppc # "cgroup_new"

\* the memory limit strings the specification admits: max, a digit string, or a
\* digit string followed by K, M, G, Ki, Mi or Gi, in any case, with a numeric
\* part that is not zero
AdmittedMemoryLimit(x) ==
    \/ LowerSeq(x) = <<"m", "a", "x">>
    \/ \E n \in 1..Len(x) :
          /\ AllDigits(SubSeq(x, 1, n))
          /\ DecVal(SubSeq(x, 1, n)) # 0
          /\ n = Len(x) \/ LowerSeq(SubSeq(x, n + 1, Len(x))) \in UnitSuffixes

\* C16: validate_memory_limit accepts a string exactly when it is max, a
\* non-zero digit string, or a non-zero digit string followed by one of K, M,
\* G, Ki, Mi, Gi, case-insensitively; memory.max is written only with such a
\* string.
C16_MemoryLimitGrammar ==
    (IsSome(mem) /\ CgroupNewCalled) =>
        /\ validate_memory_limit(Unwrap(mem)) <=> AdmittedMemoryLimit(Unwrap(mem))
        /\ IsSome(cg.memMax) => AdmittedMemoryLimit(Unwrap(mem))

\* the strings that denote a finite positive decimal
FinitePositive(x) ==
    LET f == ParseF64(x) IN f.kind = "num" /\ ~f.neg /\ f.num > 0

\* C17: parse_cpu_quota maps a finite positive decimal f to "<q> 100000" with
\* q = f * 100000 truncated ("0.5" to 50000, "0.25" to 25000, "2.0" to
\* 200000), and returns an error for every other input, infinity and NaN
\* included; cpu.max is not written for a rejected input.
C17_CpuQuota ==
    (IsSome(cpu) /\ CgroupNewCalled) =>
        LET x == Unwrap(cpu)
            f == ParseF64(x)
            q == parse_cpu_quota(x)
        IN  /\ FinitePositive(x) => q = <<"Ok", "no", (f.num * 100000) \div f.den, 100000>>
            /\ x = <<"0", ".", "5">> => q = <<"Ok", "no", 50000, 100000>>
            /\ x = <<"0", ".", "2", "5">> => q = <<"Ok", "no", 25000, 100000>>
            /\ x = <<"2", ".", "0">> => q = <<"Ok", "no", 200000, 100000>>
            /\ ~FinitePositive(x) => (q = <<"Err">> /\ cg.cpuMax = None)

\* the two characters of n written with two decimal digits
TwoDigits(n) == <<Ascii[(n \div 10) + 2], Ascii[(n % 10) + 2]>>

\* ":<root>/layerNN" for every directory layerNN of the entries, NN from n to
\* 99 in ascending order
RECURSIVE LayersFrom(_, _)
LayersFrom(entries, n) ==
    IF n > 99 THEN <<>>
    ELSE (IF <<<<"l", "a", "y", "e", "r">> \o TwoDigits(n), TRUE>> \in entries
            THEN <<":">> \o FsRoot \o <<"/">> \o <<"l", "a", "y", "e", "r">> \o TwoDigits(n)
            ELSE <<>>) \o LayersFrom(entries, n + 1)

\* C18: the lowerdir list of the overlay mount is <root>/rootfs followed by
\* exactly the directories named layer plus two ASCII digits, as <root>/<name>
\* in ascending order, joined by ':'; no other entry is included, and with no
\* matching layer the list is <root>/rootfs alone.
C18_LowerdirList ==
    IsSome(lowerdir) =>
        Unwrap(lowerdir) = FsRoot \o <<"/", "r", "o", "o", "t", "f", "s">> \o LayersFrom(fsEntries, 0)

\* C18 witness: the overlay was mounted on fs/rootfs:fs/layer00:fs/layer02:fs/layer10
\* in a directory that also holds layerAA, layer1, layer000 and the file layer05
C18_Witness ==
    /\ EntryUniverse \subseteq fsEntries
    /\ lowerdir = Some(<<"f", "s", "/", "r", "o", "o", "t", "f", "s", ":", "f", "s", "/", "l", "a", "y", "e", "r", "0", "0", ":", "f", "s", "/", "l", "a", "y", "e", "r", "0", "2", ":", "f", "s", "/", "l", "a", "y", "e", "r", "1", "0">>)

\* C19: with drop_caps set, when the workload is forked every capability but
\* CAP_CHOWN has been removed from the bounding set and no-new-privileges is
\* set, the bit being set only after the last capability was dropped (so a
\* failed drop ends the child before the fork); with drop_caps not set, the
\* bounding set and no-new-privileges are never changed.
C19_CapsDroppedBeforeFork ==
    /\ (drop_caps /\ workload # "none") =>
          (bounding = {"CAP_CHOWN"} /\ no_new_privs)
    /\ no_new_privs => bounding = {"CAP_CHOWN"}
    /\ ~drop_caps => (bounding = Capabilities /\ ~no_new_privs)

\* C19 witness: a launch with drop_caps has forked the workload
C19_Witness ==
    drop_caps /\ workload = "running" /\ bounding = {"CAP_CHOWN"} /\ no_new_privs

\* C20 (one pass): when reap_zombies returns or exits, every re-parented
\* process that was a zombie when the pass began has been reaped (or went
\* down with init), and a workload that was a zombie has been reaped.
C20_ReapPass ==
    (cpc = "reap" /\ cpc' # cpc) =>
        /\ \A o \in Orphans :
              orphans[o] = "zombie" => orphans'[o] \in {"reaped", "gone"}
        /\ workload = "zombie" => workload' = "reaped"

\* C20: every pass of the reap loop goes on until no terminated child remains:
\* reaping a zombie other than the workload does not end the pass, no reapable
\* zombie is left after it, and a workload zombie is never skipped.
C20_ReapsUntilNoZombie == [][C20_ReapPass]_vars

\* the steps of the child after the barrier, in the order of child():
\* create_container_filesystem, bring_up_container_net, sethostname, drop_caps,
\* fork
ChildSteps ==
    <<"c_mount_private", "c_mount_overlay", "c_mount_proc", "c_pivot_root",
      "c_umount_old", "ip_c_addr_add_veth0c0", "ip_c_link_up_veth0c0",
      "ip_c_route_add_default", "ip_c_link_up_lo", "c_sethostname", "c_drop_caps",
      "c_fork">>
ChildStepSet == {ChildSteps[k] : k \in DOMAIN ChildSteps}
StepIndex(e) == CHOOSE k \in DOMAIN ChildSteps : ChildSteps[k] = e

\* the steps the child has run, in the order in which it ran them
StepsRun == SelectSeq(trace, LAMBDA x : x \in ChildStepSet)

\* the steps of the child that ran and are known to have failed: an ip command
\* that was spawned and whose effect is absent exited with a non-zero status
FailedSteps ==
    {e \in {"ip_c_addr_add_veth0c0"} : e \in Events /\ ~IsSome(net.cAddr)}
      \cup {e \in {"ip_c_route_add_default"} : e \in Events /\ ~IsSome(net.gw)}

\* the child's read has returned the release byte
ChildReleased == readCount = 1

\* the released child ended in one of its steps, before the fork
ChildEndedInStep == cpc = "exited" /\ ChildReleased /\ "c_fork" \notin Events

\* C21 (order): the steps the child has run follow the fixed order, each once
C21_StepsInOrder ==
    \A k \in 1..(Len(StepsRun) - 1) : StepIndex(StepsRun[k]) < StepIndex(StepsRun[k + 1])

\* C21 (failure): after a failed step no later step has run and the workload
\* was not forked, and a child that ended in a step exited with code 1
C21_FailureEndsChild ==
    /\ ChildReleased =>
          \A f \in FailedSteps :
             /\ \A k \in DOMAIN StepsRun : StepIndex(StepsRun[k]) <= StepIndex(f)
             /\ workload = "none"
    /\ ChildEndedInStep => childStatus = <<"exited", 1>>

\* C21 (observation): when a released child ended in a step and run has
\* returned, the parent has waited for it
C21_ParentObservesExit ==
    (ChildEndedInStep /\ Returned) => "waitpid" \in Events

\* C21: after the release the child runs mount_private, overlay mount, proc
\* mount, pivot_root, unmount of the old root, the network bring-up, sethostname
\* (if set), the capability drop (if requested) and the fork in this order; when
\* a step fails no later step runs, the workload is never forked, and the child
\* exits with code 1, which the parent observes through waitpid.
C21_ChildStepsInOrderOrExit1 ==
    C21_StepsInOrder /\ C21_FailureEndsChild /\ C21_ParentObservesExit

\* the controllers the launch requests: +memory with --mem, +cpu with --cpu
RequestedControllers ==
    (IF IsSome(mem) THEN {"+memory"} ELSE {}) \cup (IF IsSome(cpu) THEN {"+cpu"} ELSE {})

\* the writes of the two cgroup.subtree_control files, and of the two limits
SubtreeEvents == {"subtree_control_root", "subtree_control_base"}
LimitEvents == {"memory.max", "cpu.max"}

\* C22: when leaf/memory.max or leaf/cpu.max has been written, its controller
\* is enabled in the subtree_control of the root cgroup and of toy_container
\* (for as long as toy_container exists); the subtree_control writes enable
\* only requested controllers, are not made when no limit is requested, and
\* both come before every limit write.
C22_ControllersBeforeLimits ==
    /\ "memory.max" \in Events =>
          ("+memory" \in cg.rootCtl /\ (cg.parent => "+memory" \in cg.baseCtl))
    /\ "cpu.max" \in Events =>
          ("+cpu" \in cg.rootCtl /\ (cg.parent => "+cpu" \in cg.baseCtl))
    /\ IsSome(cg.memMax) => "+memory" \in cg.rootCtl \cap cg.baseCtl
    /\ IsSome(cg.cpuMax) => "+cpu" \in cg.rootCtl \cap cg.baseCtl
    /\ cg.rootCtl \cup cg.baseCtl \subseteq RequestedControllers
    /\ RequestedControllers = {} => Events \cap SubtreeEvents = {}
    /\ \A j \in DOMAIN trace :
          trace[j] \in LimitEvents => SubtreeEvents \subseteq {trace[i] : i \in 1..(j - 1)}

\* C22 witness: Cgroup::new has written both limits, with both controllers
\* enabled in the root cgroup and in toy_container
C22_Witness ==
    /\ ppc = "add_process"
    /\ IsSome(cg.memMax) /\ IsSome(cg.cpuMax)
    /\ cg.rootCtl = {"+memory", "+cpu"} /\ cg.baseCtl = {"+memory", "+cpu"}
    /\ LimitEvents \subseteq Events

\* cleanup_network was called and its ip command failed: it could not be
\* spawned, or it exited non-zero and left br0 in place
BridgeDeleteFailed ==
    /\ "cleanup_network" \in Events
    /\ "ip_link_delete_br0" \notin Events \/ net.br0

\* what the launcher did from cleanup_network on, of the teardown and the return
AfterCleanup ==
    LET c == CHOOSE i \in DOMAIN trace : trace[i] = "cleanup_network"
    IN  SelectSeq(SubSeq(trace, c + 1, Len(trace)),
                  LAMBDA x : x \in {"rmdir_leaf", "rmdir_parent", "return"})

\* C23: when the ip command that deletes br0 fails during teardown (spawn
\* failure or non-zero exit), run_in_container still removes the cgroup leaf
\* directory and then toy_container before it returns.
C23_TeardownSurvivesDeleteFailure ==
    (Returned /\ uid = 0 /\ BridgeDeleteFailed) =>
        /\ ~cg.leaf /\ ~cg.parent
        /\ AfterCleanup = <<"rmdir_leaf", "rmdir_parent", "return">>

\* C23 witness: run has returned Err from a teardown whose ip command could not
\* be spawned, br0 is still there and the cgroup directories are gone
C23_Witness ==
    /\ Returned /\ uid = 0 /\ result = "Err" /\ net.br0
    /\ "cleanup_network" \in Events /\ "ip_link_delete_br0" \notin Events
    /\ "mkdir_cgroup" \in Events /\ ~cg.leaf /\ ~cg.parent

\* the same teardown after a bridge deletion that exited non-zero
C23_WitnessNonZero ==
    /\ Returned /\ uid = 0 /\ result = "Ok" /\ net.br0
    /\ "ip_link_delete_br0" \in Events
    /\ "mkdir_cgroup" \in Events /\ ~cg.leaf /\ ~cg.parent

\* C24: a child that has reached the read of the barrier always gets past it:
\* the read returns the release byte, or end of file once the launcher has
\* closed or dropped its write end, whether or not it released.
C24_ReadReturns == (cpc = "read") ~> (cpc # "read")

\* C24 witness: the launcher returned an error without writing the release
\* byte, and the child's read has returned end of file
C24_Witness ==
    /\ Returned /\ result = "Err" /\ "release" \notin Events
    /\ pWrite = "closed" /\ cWrite = "closed"
    /\ readCount = 0 /\ cpc \in {"mount_private", "overlay_dirs"}

====
